---- MODULE Spec2Model ----
(***************************************************************************)
(* Parking management system: the entry process (car_entry.py), the        *)
(* payment process (payment.py) and the exit process (car_exit.py) share   *)
(* the Session table plates_log.csv without any locking.                   *)
(*                                                                         *)
(* Time is counted in seconds.  A Session row is a record                  *)
(*   [id, plate, status, ts]                                               *)
(* where status is the 'Payment Status' column (0 Pending, 1 Paid), ts the *)
(* 'Timestamp' column and id the ordinal of the append that created the    *)
(* row (a history field, not stored in the file: it gives a row its        *)
(* identity across rewrites of the table).                                 *)
(***************************************************************************)
EXTENDS Integers, Sequences, FiniteSets, TLC

----------------------------------------------------------------------------
(* Bounds of the model *)

MaxRows == 2          \* entry appends in a run
MaxPays == 2          \* payment requests in a run
MaxExits == 3         \* exit evaluations in a run
ExitMaxRows == 1      \* entry appends in a run of the exit process
ExitMaxPays == 1      \* payment requests in a run of the exit process
ExitMaxHalfHours == 1  \* the clock of a run of the exit process, in half hours
StatsMaxExits == 1    \* exit evaluations in a run of the reconciler
LoopMaxPays == 2      \* payment requests in a run of the watcher of payment_log.txt
AlarmMaxSeconds == 2   \* the seconds within which the exits of a run of the alarms are evaluated
BufferSlack == 1       \* the free places of the fullest activity buffers a run of the buffer starts with
ReentryMaxRows == 2    \* Session rows of the plate that enters, pays, and enters again
EntryMaxRows == 3      \* Session rows appended in a run of the entry process alone
LoopMaxEvents == 3    \* entries, payment requests and exit evaluations in a run of the watcher's loop
MaxHalfHours == 3     \* the clock runs over 0 .. MaxHalfHours half hours
MaxBalance == 1500    \* largest balance a card presents

----------------------------------------------------------------------------
(* Program constants *)

HOURLY_RATE == 500
MINIMUM_CHARGE == 500
entry_cooldown == 300
exit_cooldown == 60
ALERT_DURATION == 5
MAX_UNAUTHORIZED_ATTEMPTS == 3
SecondsPerMinute == 60
MinutesPerHour == 60
GateOpenDuration == 10
AlarmCountdown == 5
STATS_HOURLY_RATE == 200
MAX_ACTIVITIES == 50
ExitHourlyAmount == 500
ExitMinimumAmount == 500

None == "None"

\* Plates matching plate_pattern, which the cameras can report.
Plates == {"RAD667J", "RAB123C"}
\* The plates of the simulation mode's test lists.
SimPlates == {"RAD667J", "REPEAT1"}
AllPlates == Plates \cup SimPlates

\* Instants at which something happens: the half hours.
Times == {h * 1800 : h \in 0..MaxHalfHours}

Balances == {400, 500, MaxBalance}

PENDING == 0
PAID == 1

----------------------------------------------------------------------------
(* Pure helpers *)

Max(a, b) == IF a >= b THEN a ELSE b

\* math.ceil(a / b) for a >= 0, b > 0
Ceil(a, b) == (a + b - 1) \div b

RECURSIVE SumSeq(_)
SumSeq(s) == IF s = <<>> THEN 0 ELSE Head(s) + SumSeq(Tail(s))

----------------------------------------------------------------------------
(* payment.py: charges *)

\* hours = math.ceil(minutes / 60); max(hours * HOURLY_RATE, MINIMUM_CHARGE),
\* with minutes = seconds / 60 (a float, so no rounding before the ceiling).
session_charge(seconds) ==
    Max(Ceil(seconds, SecondsPerMinute * MinutesPerHour) * HOURLY_RATE, MINIMUM_CHARGE)

\* The duration string: "H:MM:00" as the pair <<H, MM>>, or the fixed text.
duration_str(total_seconds) ==
    IF total_seconds > 0
    THEN << total_seconds \div (SecondsPerMinute * MinutesPerHour),
            (total_seconds \div SecondsPerMinute) % MinutesPerHour >>
    ELSE << "No active sessions" >>

\* Mutant: every row of the plate is taken for an unpaid session, Paid or not.
calculate_charges_any_status(rows, plate_number, current_time) ==
    LET sel == SelectSeq(rows, LAMBDA r : r.plate = plate_number)
        charged == SelectSeq(sel, LAMBDA r : current_time - r.ts > 0)
    IN  [ total_charge |-> SumSeq([i \in 1..Len(charged) |-> session_charge(current_time - charged[i].ts)]),
          sessions |-> Len(charged),
          duration |-> duration_str(SumSeq([i \in 1..Len(sel) |-> current_time - sel[i].ts])) ]

\* calculate_charges: the rows of the plate with status '0' are selected; each
\* adds its minutes to the total duration, and is charged and counted only
\* when its minutes are > 0.
calculate_charges(rows, plate_number, current_time) ==
    LET sel == SelectSeq(rows, LAMBDA r : r.plate = plate_number /\ r.status = PENDING)
        charged == SelectSeq(sel, LAMBDA r : current_time - r.ts > 0)
    IN  [ total_charge |-> SumSeq([i \in 1..Len(charged) |-> session_charge(current_time - charged[i].ts)]),
          sessions |-> Len(charged),
          duration |-> duration_str(SumSeq([i \in 1..Len(sel) |-> current_time - sel[i].ts])) ]

\* Mutant: the status is toggled instead of set.
flip_row_toggle(row, plate_number) ==
    IF row.plate = plate_number THEN [row EXCEPT !.status = 1 - row.status] ELSE row

\* Mutant: the plate is not compared.
flip_row_any_plate(row, plate_number) ==
    IF row.status = PENDING THEN [row EXCEPT !.status = PAID] ELSE row

\* update_csv, the loop body: a row of the plate with status '0' gets '1'.
flip_row(row, plate_number) ==
    IF row.plate = plate_number /\ row.status = PENDING
    THEN [row EXCEPT !.status = PAID]
    ELSE row

\* update_csv, the read loop: updated_rows.
read_and_flip(rows, plate_number) == [i \in 1..Len(rows) |-> flip_row(rows[i], plate_number)]

\* Mutant: the balance is not debited.
new_balance_of_undebited(current_balance, total_charge) == current_balance

\* process_payment: new_balance = current_balance - total_charge
new_balance_of(current_balance, total_charge) == current_balance - total_charge

\* Mutant: the comparison is turned round.
insufficient_gt(current_balance, total_charge) == current_balance > total_charge

\* process_payment: if current_balance < total_charge
insufficient(current_balance, total_charge) == current_balance < total_charge

\* main: charged_amount = current_balance - new_balance
charged_amount(current_balance, new_balance) == current_balance - new_balance

----------------------------------------------------------------------------
VARIABLES
    now,              \* the wall clock, in seconds
    csv,              \* plates_log.csv: the Session rows, in file order
    entry_hist,       \* history: the rows as appended, entry_hist[i] has id i
    ever_paid,        \* history: ids of the rows that have been read as Paid
    last_saved_plate, \* car_entry.py
    last_entry_time,  \* car_entry.py
    pay_pc,           \* where the payment process is in process_payment
    pay_req,          \* the request being served
    pay_calc,         \* what calculate_charges returned for it
    updated_rows,     \* update_csv's local list
    response,         \* the last response sent to the terminal
    payment_log,      \* payment_log.txt: one outcome per line
    entry_since,      \* history: an entry was appended since the last response
    exit_pc,          \* car_exit.py: "start" until the module level code has run
    arduino,          \* car_exit.py: an actuator is connected
    simulation_mode,  \* car_exit.py: no camera was found
    unauthorized_attempts, \* car_exit.py: the dict plate -> attempts
    last_processed_plate,  \* car_exit.py
    last_exit_time,   \* car_exit.py
    threads,          \* car_exit.py: the alarm and gate threads still sleeping
    actuator,         \* the last signal byte the exit actuator received
    security_log,     \* security_alerts.csv
    exit_log,         \* exit_log.csv
    incident_reports, \* the incident_report_<plate>_<time>.txt files
    last_eval,        \* the outcome of the latest exit evaluation
    denials,          \* history: denied evaluations per plate since its last reset
    counter_born,     \* history: the plate's successful payments when its counter was created
    system_stats,     \* app.py: the stats dict
    last_csv_size,    \* app.py, watch_logs: the size of plates_log.csv last seen
    last_payment_size,  \* app.py, watch_logs: the size of payment_log.txt last seen
    last_exit_size,     \* app.py, watch_logs: the size of exit_log.csv last seen
    last_security_size, \* app.py, watch_logs: the size of security_alerts.csv last seen
    recent_activities, \* app.py: the activity buffer, newest first
    emitted,          \* the events the latest handler or watcher block emitted, in order
    watch_error,      \* history: the block whose read last raised, and the size it had seen
    stats_src,        \* history: the tables system_stats was last computed from
    stats_repeat,     \* history: the last recomputation read the tables of the one before
    watch_pc,         \* app.py, watch_logs: the block the iteration has reached
    current_csv_size  \* app.py, watch_logs: the size of plates_log.csv measured last

tableVars == << csv, entry_hist, ever_paid >>
entryVars == << last_saved_plate, last_entry_time >>
payVars == << pay_pc, pay_req, pay_calc, updated_rows, response, payment_log >>
exitVars == << exit_pc, arduino, simulation_mode, unauthorized_attempts,
               last_processed_plate, last_exit_time, threads, actuator,
               security_log, exit_log, incident_reports, last_eval, denials,
               counter_born >>

watchVars == << last_csv_size, last_payment_size, last_exit_size, last_security_size,
                recent_activities, emitted, watch_error >>

loopVars == << watch_pc, current_csv_size >>

statsVars == << system_stats, stats_src, stats_repeat, watchVars, loopVars >>

vars == << now, tableVars, entryVars, payVars, entry_since, exitVars, statsVars >>

NoRequest == [plate |-> None, balance |-> 0]
NoCalc == [total_charge |-> 0, sessions |-> 0, duration |-> << "No active sessions" >>]
NoResponse == [status |-> None, plate |-> None]
NoEval == [n |-> 0, plate |-> None, granted |-> FALSE, alert_type |-> None, readable |-> TRUE]

\* app.py: system_stats as the module creates it.
InitStats ==
    [ total_vehicles |-> 0, vehicles_inside |-> 0, paid_vehicles |-> 0,
      pending_payments |-> 0, vehicles_exited |-> 0, active_sessions |-> 0,
      hourly_rate |-> STATS_HOURLY_RATE ]

\* watch_logs: no iteration has ended in the except branch.
NoError == [block |-> None, size |-> 0]

\* The tables before anything was written.
NoTables == [csv |-> <<>>, exit_log |-> <<>>]

\* The empty dict.
EmptyDict == [p \in {} |-> 0]

Init ==
    /\ now = 0
    /\ csv = <<>>
    /\ entry_hist = <<>>
    /\ ever_paid = {}
    /\ last_saved_plate = None
    /\ last_entry_time = 0
    /\ pay_pc = "idle"
    /\ pay_req = NoRequest
    /\ pay_calc = NoCalc
    /\ updated_rows = <<>>
    /\ response = NoResponse
    /\ payment_log = <<>>
    /\ entry_since = FALSE
    /\ exit_pc = "start"
    /\ arduino = FALSE
    /\ simulation_mode = FALSE
    /\ unauthorized_attempts = EmptyDict
    /\ last_processed_plate = None
    /\ last_exit_time = 0
    /\ threads = {}
    /\ actuator = "0"
    /\ security_log = <<>>
    /\ exit_log = <<>>
    /\ incident_reports = {}
    /\ last_eval = NoEval
    /\ denials = [p \in AllPlates |-> 0]
    /\ counter_born = [p \in AllPlates |-> 0]
    /\ system_stats = InitStats
    /\ last_csv_size = 0
    /\ recent_activities = <<>>
    /\ last_payment_size = 0
    /\ last_exit_size = 0
    /\ last_security_size = 0
    /\ emitted = <<>>
    /\ watch_error = NoError
    /\ stats_src = NoTables
    /\ stats_repeat = FALSE
    /\ watch_pc = "csv"
    /\ current_csv_size = 0

----------------------------------------------------------------------------
(* The clock.  process_payment takes milliseconds and the instants of Times *)
(* are a second or more apart: the clock does not move within a payment.   *)

Tick ==
    /\ pay_pc = "idle"
    /\ \E t \in Times : t > now /\ now' = t
    /\ UNCHANGED << tableVars, entryVars, statsVars, payVars, entry_since, exitVars >>

----------------------------------------------------------------------------
(* car_entry.py, the main loop once the plate buffer has agreed on a plate *)

\* The row written by writer.writerow([most_common, "0", timestamp]).
entry_row(plate, timestamp, n) == [id |-> n, plate |-> plate, status |-> PENDING, ts |-> timestamp]

\* if most_common != last_saved_plate or (now - last_entry_time) > entry_cooldown
entry_allowed(plate) ==
    plate # last_saved_plate \/ (now - last_entry_time) > entry_cooldown

\* The window between update_csv's truncating open and its write lasts far
\* less than the 0.5 s the entry loop sleeps per detection: at most one
\* append falls into it.
EntrySave(plate) ==
    /\ ~(pay_pc = "update_write" /\ Len(csv) >= 1)
    /\ entry_allowed(plate)
    /\ csv' = Append(csv, entry_row(plate, now, Len(entry_hist) + 1))
    /\ entry_hist' = Append(entry_hist, entry_row(plate, now, Len(entry_hist) + 1))
    /\ last_saved_plate' = plate
    /\ last_entry_time' = now
    /\ entry_since' = TRUE
    /\ UNCHANGED << now, ever_paid, payVars, exitVars, statsVars >>

EntrySkip(plate) ==
    /\ ~entry_allowed(plate)
    /\ UNCHANGED vars

----------------------------------------------------------------------------
(* payment.py: main and process_payment, for one request line *)

\* History: the ids of the rows of a table whose status is Paid.
PaidIds(rows) == {rows[i].id : i \in {j \in 1..Len(rows) : rows[j].status = PAID}}

\* f"INSUFFICIENT_FUNDS:{total_charge},{current_balance}", returned with
\* current_balance
InsufficientStatus(plate_number, total_charge, current_balance) ==
    [status |-> "INSUFFICIENT_FUNDS", plate |-> plate_number, owed |-> total_charge,
     balance |-> current_balance]

\* The line main appends to payment_log.txt.
log_entry(plate_number, outcome) == [plate |-> plate_number, outcome |-> outcome]

\* process_payment: return "NO_PARKING_SESSIONS", current_balance, duration
NoSessionsStatus(plate_number, current_balance) ==
    [status |-> "NO_PARKING_SESSIONS", plate |-> plate_number, balance |-> current_balance]

\* main: a line PROCESS_PAYMENT:<plate>,<balance> is read from the terminal.
PayRequest(plate_number, current_balance) ==
    /\ pay_pc = "idle"
    /\ Len(payment_log) < MaxPays
    /\ pay_pc' = "calc"
    /\ pay_req' = [plate |-> plate_number, balance |-> current_balance]
    /\ UNCHANGED << now, tableVars, entryVars, statsVars, pay_calc, updated_rows, response,
                    payment_log, entry_since, exitVars >>

\* process_payment up to update_csv: calculate_charges scans the table; the
\* two outcomes that touch no row are answered and logged at once.
PayCalc ==
    /\ pay_pc = "calc"
    /\ LET c == calculate_charges(csv, pay_req.plate, now) IN
         IF c.sessions = 0
         THEN /\ response' = NoSessionsStatus(pay_req.plate, pay_req.balance)
              /\ payment_log' = Append(payment_log, log_entry(pay_req.plate, "NO_PARKING_SESSIONS"))
              /\ entry_since' = FALSE
              /\ pay_pc' = "idle"
              /\ pay_req' = NoRequest
              /\ UNCHANGED pay_calc
         ELSE IF insufficient(pay_req.balance, c.total_charge)
         THEN /\ response' = InsufficientStatus(pay_req.plate, c.total_charge, pay_req.balance)
              /\ payment_log' = Append(payment_log, log_entry(pay_req.plate, "INSUFFICIENT_FUNDS"))
              /\ entry_since' = FALSE
              /\ pay_pc' = "idle"
              /\ pay_req' = NoRequest
              /\ UNCHANGED pay_calc
         ELSE /\ pay_pc' = "update_read"
              /\ pay_calc' = c
              /\ UNCHANGED << pay_req, response, payment_log, entry_since >>
    /\ UNCHANGED << now, tableVars, entryVars, statsVars, updated_rows, exitVars >>

\* update_csv: with open(CSV_FILE, 'r') ... updated_rows.append(row)
PayUpdateRead ==
    /\ pay_pc = "update_read"
    /\ updated_rows' = read_and_flip(csv, pay_req.plate)
    /\ pay_pc' = "update_trunc"
    /\ UNCHANGED << now, tableVars, entryVars, statsVars, pay_req, pay_calc, response,
                    payment_log, entry_since, exitVars >>

\* update_csv: open(CSV_FILE, 'w') truncates the file; nothing is written
\* before the buffer is flushed.
PayUpdateTrunc ==
    /\ pay_pc = "update_trunc"
    /\ csv' = <<>>
    /\ pay_pc' = "update_write"
    /\ UNCHANGED << now, entry_hist, ever_paid, entryVars, statsVars, pay_req, pay_calc,
                    updated_rows, response, payment_log, entry_since, exitVars >>

\* main: f"PAYMENT_SUCCESS:{new_balance},{charged_amount},{duration}"
SuccessResponse(plate_number, current_balance, new_balance, duration) ==
    [ status |-> "PAYMENT_SUCCESS", plate |-> plate_number, new_balance |-> new_balance,
      charged |-> charged_amount(current_balance, new_balance), duration |-> duration ]

\* update_csv: header and rows are written from offset 0 (over a row appended
\* since the truncation); process_payment returns PAYMENT_SUCCESS and main
\* answers and logs.
PayUpdateWrite ==
    /\ pay_pc = "update_write"
    /\ csv' = updated_rows
    /\ ever_paid' = ever_paid \cup PaidIds(updated_rows)
    /\ response' = SuccessResponse(pay_req.plate, pay_req.balance,
                                   new_balance_of(pay_req.balance, pay_calc.total_charge),
                                   pay_calc.duration)
    /\ payment_log' = Append(payment_log, log_entry(pay_req.plate, "SUCCESS"))
    /\ pay_pc' = "idle"
    /\ pay_req' = NoRequest
    /\ pay_calc' = NoCalc
    /\ updated_rows' = <<>>
    /\ entry_since' = FALSE
    /\ UNCHANGED << now, entry_hist, entryVars, statsVars, exitVars >>

\* update_csv: an I/O error while reading, or while writing the truncated
\* file, is caught; process_payment returns UPDATE_ERROR with the balance as
\* presented and main answers ERROR:UPDATE_ERROR.
PayUpdateFail ==
    /\ pay_pc \in {"update_read", "update_write"}
    /\ response' = [status |-> "ERROR", plate |-> pay_req.plate, reason |-> "UPDATE_ERROR",
                    balance |-> pay_req.balance]
    /\ payment_log' = Append(payment_log, log_entry(pay_req.plate, "ERROR"))
    /\ pay_pc' = "idle"
    /\ pay_req' = NoRequest
    /\ pay_calc' = NoCalc
    /\ updated_rows' = <<>>
    /\ entry_since' = FALSE
    /\ UNCHANGED << now, tableVars, entryVars, statsVars, exitVars >>

----------------------------------------------------------------------------
(* car_exit.py *)

\* is_payment_complete: some row of the plate has Payment Status '1'.
is_payment_complete(rows, plate_number) ==
    \E i \in 1..Len(rows) : rows[i].plate = plate_number /\ rows[i].status = PAID

\* Mutant: a table that cannot be read verifies the payment.
payment_verified_open(rows, plate_number, readable) ==
    ~readable \/ is_payment_complete(rows, plate_number)

\* is_payment_complete as its caller sees it: False when the file is missing
\* or the read raises (readable = FALSE), the scan's answer otherwise.
payment_verified(rows, plate_number, readable) ==
    readable /\ is_payment_complete(rows, plate_number)

\* trigger_unauthorized_exit_alarm: the alert type of an attempt count.
alert_type_of(attempt_count) ==
    IF attempt_count >= MAX_UNAUTHORIZED_ATTEMPTS THEN "CRITICAL_SECURITY_BREACH"
    ELSE IF attempt_count >= 2 THEN "HIGH_PRIORITY_ALERT"
    ELSE "UNAUTHORIZED_EXIT_ATTEMPT"

\* trigger_unauthorized_exit_alarm: action_taken, the count kept beside the text.
action_taken_of(attempt_count) ==
    IF attempt_count >= MAX_UNAUTHORIZED_ATTEMPTS THEN << "LOCKDOWN_INITIATED_AFTER", attempt_count >>
    ELSE IF attempt_count >= 2 THEN << "REPEATED_UNAUTHORIZED_ATTEMPT", attempt_count >>
    ELSE << "ALARM_ACTIVATED_GATE_BLOCKED" >>

\* trigger_unauthorized_exit_alarm: the byte written to the actuator.
arduino_signal_of(attempt_count) ==
    IF attempt_count >= MAX_UNAUTHORIZED_ATTEMPTS THEN "9"
    ELSE IF attempt_count >= 2 THEN "8"
    ELSE "2"

\* Mutant: a report from the second attempt on.
needs_report_high(attempt_count) == attempt_count >= 2

\* trigger_unauthorized_exit_alarm: if attempt_count >= MAX_UNAUTHORIZED_ATTEMPTS
\* an incident report is generated.
needs_report(attempt_count) == attempt_count >= MAX_UNAUTHORIZED_ATTEMPTS

\* Mutant: the increment of a thread that finds an alarm of the plate still
\* sounding is lost.
incremented_unless_sounding(attempts, plate_number) ==
    IF plate_number \notin DOMAIN attempts THEN 1
    ELSE IF \E t \in threads : t.kind = "alarm" /\ t.plate = plate_number
    THEN attempts[plate_number]
    ELSE attempts[plate_number] + 1

\* unauthorized_attempts[plate] after "if plate not in ...: = 0" and "+= 1".
incremented(attempts, plate_number) ==
    IF plate_number \in DOMAIN attempts THEN attempts[plate_number] + 1 ELSE 1

\* Mutant: every key of the dict is set.
dict_set_all(attempts, plate_number, v) ==
    [q \in DOMAIN attempts \cup {plate_number} |-> v]

\* The dict with the plate's key set.
dict_set(attempts, plate_number, v) ==
    [q \in DOMAIN attempts \cup {plate_number} |-> IF q = plate_number THEN v ELSE attempts[q]]

\* Mutant: the counter is kept.
reset_kept(attempts, plate_number) == attempts

\* reset_unauthorized_attempts: del unauthorized_attempts[plate] if present.
reset_unauthorized_attempts(attempts, plate_number) ==
    [q \in DOMAIN attempts \ {plate_number} |-> attempts[q]]

\* log_exit_to_csv: the scan of plates_log.csv finds a row of the plate.
has_entry(rows, plate_number) == \E i \in 1..Len(rows) : rows[i].plate = plate_number

\* log_exit_to_csv: entry_time, the Timestamp of the first row of the plate.
first_entry_time(rows, plate_number) ==
    LET own == {i \in 1..Len(rows) : rows[i].plate = plate_number}
    IN  rows[CHOOSE i \in own : \A j \in own : i <= j].ts

\* log_exit_to_csv: max(500, int(hours * 500)) for an authorized exit, else 0.
amount_paid_of(exit_type, seconds) ==
    IF exit_type = "AUTHORIZED"
    THEN Max(ExitMinimumAmount,
             (seconds * ExitHourlyAmount) \div (SecondsPerMinute * MinutesPerHour))
    ELSE 0

\* log_exit_to_csv: exit_log.csv after the call; no row when the plate has
\* no entry record.
log_exit_to_csv(log, rows, plate_number, exit_type) ==
    LET entry_time == first_entry_time(rows, plate_number)
    IN  IF ~has_entry(rows, plate_number) THEN log
        ELSE Append(log, [ plate |-> plate_number, entry_time |-> entry_time,
                           exit_time |-> now, duration |-> now - entry_time,
                           amount_paid |-> amount_paid_of(exit_type, now - entry_time),
                           exit_type |-> exit_type,
                           security_status |-> IF exit_type = "AUTHORIZED"
                                               THEN "CLEARED" ELSE "FLAGGED" ])

\* The PAYMENT_SUCCESS lines of the plate in payment_log.txt.
successes(log, plate_number) ==
    Cardinality({i \in 1..Len(log) : log[i] = log_entry(plate_number, "SUCCESS")})

\* Module level: detect_arduino_port and initialize_camera.
ExitStartup(has_arduino, no_camera) ==
    /\ exit_pc = "start"
    /\ exit_pc' = "run"
    /\ arduino' = has_arduino
    /\ simulation_mode' = no_camera
    /\ UNCHANGED << now, tableVars, entryVars, statsVars, payVars, entry_since,
                    unauthorized_attempts, last_processed_plate, last_exit_time,
                    threads, actuator, security_log, exit_log, incident_reports,
                    last_eval, denials, counter_born >>

\* The plates an evaluation can be about: the test lists in simulation mode,
\* what the camera reads otherwise.
ExitPlates == IF simulation_mode THEN SimPlates ELSE Plates

\* Camera mode: if most_common != last_processed_plate or
\* (now - last_exit_time) > exit_cooldown.  Simulation mode has no cooldown.
exit_allowed(plate) ==
    \/ simulation_mode
    \/ plate # last_processed_plate
    \/ (now - last_exit_time) > exit_cooldown

\* Camera mode only: last_processed_plate = most_common; last_exit_time = now
ExitStamp(plate) ==
    IF simulation_mode
    THEN UNCHANGED << last_processed_plate, last_exit_time >>
    ELSE last_processed_plate' = plate /\ last_exit_time' = now

ExitReady(plate) ==
    /\ exit_pc = "run"
    /\ last_eval.n < MaxExits
    /\ plate \in ExitPlates
    /\ exit_allowed(plate)

\* An evaluation that finds the payment complete: the gate thread is
\* started (its first write is '1'), the attempts are reset and the exit is
\* logged.
ExitGrant(plate, readable) ==
    /\ ExitReady(plate)
    /\ payment_verified(csv, plate, readable)
    /\ IF arduino
       THEN /\ threads' = threads \cup {[kind |-> "gate", n |-> last_eval.n + 1, plate |-> plate, started |-> now]}
            /\ actuator' = "1"
       ELSE UNCHANGED << threads, actuator >>
    /\ unauthorized_attempts' = reset_unauthorized_attempts(unauthorized_attempts, plate)
    /\ denials' = [denials EXCEPT ![plate] = 0]
    /\ exit_log' = log_exit_to_csv(exit_log, csv, plate, "AUTHORIZED")
    /\ ExitStamp(plate)
    /\ last_eval' = [ n |-> last_eval.n + 1, plate |-> plate, granted |-> TRUE,
                      alert_type |-> None, readable |-> readable ]
    /\ UNCHANGED << now, tableVars, entryVars, statsVars, payVars, entry_since, exit_pc, arduino,
                    simulation_mode, security_log, incident_reports, counter_born >>

\* The head of trigger_unauthorized_exit_alarm, which the new thread runs as
\* soon as it is started: the attempt is counted and classified and the
\* alarm signal written; the thread then sleeps.
AlarmThread(plate, attempts, n) ==
    [ kind |-> "alarm", n |-> n, plate |-> plate, started |-> now,
      attempt_count |-> incremented(attempts, plate),
      alert_type |-> alert_type_of(incremented(attempts, plate)),
      action_taken |-> action_taken_of(incremented(attempts, plate)) ]

\* An evaluation that does not find the payment complete.  With an actuator
\* the alarm thread is started; without one the simulation mode logs a
\* simulated alert and the camera mode none; the exit is logged, unless the
\* table is_payment_complete could not read fails log_exit_to_csv, the next
\* statement, as well.
ExitDeny(plate, readable) ==
    /\ ExitReady(plate)
    /\ ~payment_verified(csv, plate, readable)
    /\ IF arduino
       THEN /\ unauthorized_attempts' =
                   dict_set(unauthorized_attempts, plate, incremented(unauthorized_attempts, plate))
            /\ threads' = threads \cup {AlarmThread(plate, unauthorized_attempts, last_eval.n + 1)}
            /\ actuator' = arduino_signal_of(incremented(unauthorized_attempts, plate))
            /\ last_eval' = [ n |-> last_eval.n + 1, plate |-> plate, granted |-> FALSE,
                              alert_type |-> alert_type_of(incremented(unauthorized_attempts, plate)),
                              readable |-> readable ]
            /\ UNCHANGED security_log
       ELSE IF simulation_mode
       THEN /\ security_log' = Append(security_log,
                   [ plate |-> plate, alert_type |-> "UNAUTHORIZED_EXIT_ATTEMPT",
                     status |-> "SIMULATED", action_taken |-> << "5_SECOND_ALARM_ACTIVATED" >> ])
            /\ last_eval' = [ n |-> last_eval.n + 1, plate |-> plate, granted |-> FALSE,
                              alert_type |-> "UNAUTHORIZED_EXIT_ATTEMPT", readable |-> readable ]
            /\ UNCHANGED << unauthorized_attempts, threads, actuator >>
       ELSE /\ last_eval' = [ n |-> last_eval.n + 1, plate |-> plate, granted |-> FALSE,
                              alert_type |-> None, readable |-> readable ]
            /\ UNCHANGED << unauthorized_attempts, threads, actuator, security_log >>
    /\ denials' = [denials EXCEPT ![plate] = @ + 1]
    /\ counter_born' = IF arduino /\ plate \notin DOMAIN unauthorized_attempts
                       THEN [counter_born EXCEPT ![plate] = successes(payment_log, plate)]
                       ELSE counter_born
    /\ exit_log' = IF readable THEN log_exit_to_csv(exit_log, csv, plate, "UNAUTHORIZED")
                   ELSE exit_log
    /\ ExitStamp(plate)
    /\ UNCHANGED << now, tableVars, entryVars, statsVars, payVars, entry_since, exit_pc, arduino,
                    simulation_mode, incident_reports >>

\* Camera mode: [SKIPPED] Recent exit attempt.
ExitSkip(plate) ==
    /\ exit_pc = "run"
    /\ plate \in ExitPlates
    /\ ~exit_allowed(plate)
    /\ UNCHANGED vars

\* for remaining in range(5, 0, -1): time.sleep(1), whatever the alert type.
alarm_duration(alert_type) == AlarmCountdown

\* The tail of trigger_unauthorized_exit_alarm, after the sleeps of one
\* second: the stop signal, log_security_alert, and the incident report of
\* a critical attempt.  Evaluations are more than a second apart (the plate
\* buffer fills at one frame per 0.5 s, the simulation loop sleeps 2 s) and
\* every alarm sleeps the same time, so the alarms finish in the order they
\* were started.  Once the main loop has ended and closed the port, the
\* write of the stop signal raises and the except branch ends the thread.
AlarmFinish(t) ==
    /\ t \in threads
    /\ t.kind = "alarm"
    /\ now >= t.started + alarm_duration(t.alert_type)
    /\ \A u \in threads : u.kind = "alarm" => u.n >= t.n
    /\ threads' = threads \ {t}
    /\ IF exit_pc = "closed"
       THEN UNCHANGED << actuator, security_log, incident_reports >>
       ELSE /\ actuator' = "0"
            /\ security_log' = Append(security_log,
                   [ plate |-> t.plate, alert_type |-> t.alert_type, status |-> "ACTIVE",
                     action_taken |-> t.action_taken ])
            /\ incident_reports' =
                   IF needs_report(t.attempt_count)
                   THEN incident_reports \cup {[plate |-> t.plate, attempts |-> t.attempt_count, n |-> t.n]}
                   ELSE incident_reports
    /\ UNCHANGED << now, tableVars, entryVars, statsVars, payVars, entry_since, exit_pc, arduino,
                    simulation_mode, unauthorized_attempts, last_processed_plate,
                    last_exit_time, exit_log, last_eval, denials, counter_born >>

\* The main loop ends (q is typed or pressed, or the camera gives no frame)
\* and the cleanup closes the camera and the port.
ExitShutdown ==
    /\ exit_pc = "run"
    /\ exit_pc' = "closed"
    /\ UNCHANGED << now, tableVars, entryVars, statsVars, payVars, entry_since, arduino,
                    simulation_mode, unauthorized_attempts, last_processed_plate,
                    last_exit_time, threads, actuator, security_log, exit_log,
                    incident_reports, last_eval, denials, counter_born >>

\* time.sleep(1) in the alarm's countdown: a second passes.  A thread whose
\* last sleep has returned writes the stop signal before the next second.
SecondPasses ==
    /\ \A t \in threads : t.kind = "alarm" => now < t.started + alarm_duration(t.alert_type)
    /\ now < AlarmMaxSeconds \/ \E t \in threads : t.kind = "alarm"
    /\ now' = now + 1
    /\ UNCHANGED << tableVars, entryVars, statsVars, payVars, entry_since, exitVars >>

\* The tail of open_gate: after open_duration the gate is closed.
GateClose(t) ==
    /\ t \in threads
    /\ t.kind = "gate"
    /\ now >= t.started + GateOpenDuration
    /\ threads' = threads \ {t}
    /\ actuator' = "0"
    /\ UNCHANGED << now, tableVars, entryVars, statsVars, payVars, entry_since, exit_pc, arduino,
                    simulation_mode, unauthorized_attempts, last_processed_plate,
                    last_exit_time, security_log, exit_log, incident_reports,
                    last_eval, denials, counter_born >>

----------------------------------------------------------------------------
(* The entry and payment processes and the clock *)

Next ==
    \/ Tick
    \/ \E p \in Plates : Len(entry_hist) < MaxRows /\ EntrySave(p)
    \/ \E p \in Plates : EntrySkip(p)
    \/ \E p \in Plates, b \in Balances : PayRequest(p, b)
    \/ PayCalc
    \/ PayUpdateRead
    \/ PayUpdateTrunc
    \/ PayUpdateWrite
    \/ PayUpdateFail

Spec == Init /\ [][Next]_vars

----------------------------------------------------------------------------
(* The entry process alone: the camera reads plates, which are saved or    *)
(* skipped, and time passes.                                               *)

EntryNext ==
    \/ Tick
    \/ \E p \in Plates : Len(entry_hist) < EntryMaxRows /\ EntrySave(p)
    \/ \E p \in Plates : EntrySkip(p)

EntrySpec == Init /\ [][EntryNext]_vars

----------------------------------------------------------------------------
(* The exit process, with the entries and the payments that decide its      *)
(* evaluations: one plate enters, between payments, and its card is        *)
(* presented, with the largest balance, while it has a Pending row.  The   *)
(* clock runs half an hour past the last evaluation while a gate is open.  *)

ExitNext ==
    \/ /\ Tick
       /\ \/ now' <= ExitMaxHalfHours * 1800
          \/ now' = now + 1800 /\ \E t \in threads : t.kind = "gate" /\ t.started = now
    \/ /\ now <= ExitMaxHalfHours * 1800
       /\ Len(entry_hist) < ExitMaxRows
       /\ pay_pc = "idle"
       /\ EntrySave("RAD667J")
    \/ /\ now <= ExitMaxHalfHours * 1800
       /\ Len(payment_log) < ExitMaxPays
       /\ \E i \in 1..Len(csv) : csv[i].status = PENDING
       /\ PayRequest("RAD667J", MaxBalance)
    \/ PayCalc
    \/ PayUpdateRead
    \/ PayUpdateTrunc
    \/ PayUpdateWrite
    \/ \E a, c \in BOOLEAN : ExitStartup(a, c)
    \/ \E p \in AllPlates, r \in BOOLEAN : now <= ExitMaxHalfHours * 1800 /\ ExitGrant(p, r)
    \/ \E p \in AllPlates, r \in BOOLEAN : now <= ExitMaxHalfHours * 1800 /\ ExitDeny(p, r)
    \/ \E p \in AllPlates : ExitSkip(p)
    \/ \E t \in threads : AlarmFinish(t)
    \/ \E t \in threads : GateClose(t)

ExitSpec == Init /\ [][ExitNext]_vars

----------------------------------------------------------------------------
(* A plate that comes back: plates enter, their cards are presented, a     *)
(* plate enters again after the cooldown, and the exit camera reads        *)
(* RAD667J at any of these moments, the table being readable.              *)

ReentryNext ==
    \/ /\ Tick
       /\ \/ now' <= ExitMaxHalfHours * 1800
          \/ now' = now + 1800 /\ \E t \in threads : t.kind = "gate" /\ t.started = now
    \/ \E p \in Plates :
          /\ now <= ExitMaxHalfHours * 1800
          /\ Len(entry_hist) < ReentryMaxRows
          /\ pay_pc = "idle"
          /\ EntrySave(p)
    \/ \E p \in Plates :
          /\ now <= ExitMaxHalfHours * 1800
          /\ Len(payment_log) < ReentryMaxRows
          /\ \E i \in 1..Len(csv) : csv[i].plate = p /\ csv[i].status = PENDING
          /\ PayRequest(p, MaxBalance)
    \/ PayCalc
    \/ PayUpdateRead
    \/ PayUpdateTrunc
    \/ PayUpdateWrite
    \/ \E a \in BOOLEAN : ExitStartup(a, FALSE)
    \/ now <= ExitMaxHalfHours * 1800 /\ ExitGrant("RAD667J", TRUE)
    \/ now <= ExitMaxHalfHours * 1800 /\ ExitDeny("RAD667J", TRUE)
    \/ \E t \in threads : AlarmFinish(t)
    \/ \E t \in threads : GateClose(t)

ReentrySpec == Init /\ [][ReentryNext]_vars

----------------------------------------------------------------------------
(* The alarms of the exit process, second by second: no plate has paid,    *)
(* every evaluation is a denial, and the main loop may end at any moment.  *)
(* The sleeps of the alarm threads return and the seconds pass.            *)

AlarmNext ==
    \/ SecondPasses
    \/ \E a, c \in BOOLEAN : ExitStartup(a, c)
    \/ \E p \in AllPlates : now <= AlarmMaxSeconds /\ ExitDeny(p, TRUE)
    \/ \E t \in threads : AlarmFinish(t)
    \/ ExitShutdown

AlarmSpec ==
    /\ Init
    /\ [][AlarmNext]_vars
    /\ WF_vars(SecondPasses)
    /\ WF_vars(\E t \in threads : AlarmFinish(t))


----------------------------------------------------------------------------
(* app.py *)

\* update_system_stats: vehicles, the plates of plates_log.csv.
vehicles_of(rows) == {rows[i].plate : i \in 1..Len(rows)}

\* update_system_stats: exited_vehicles, the plates of exit_log.csv.
exited_vehicles_of(exits) == {exits[i].plate : i \in 1..Len(exits)}

\* Mutant: total_vehicles counts the rows.
computed_stats_rows(rows, exits) ==
    LET vehicles == vehicles_of(rows)
        exited_vehicles == exited_vehicles_of(exits)
    IN  [ total_vehicles |-> Len(rows),
          vehicles_inside |-> Cardinality(vehicles \ exited_vehicles),
          paid_vehicles |-> Cardinality({i \in 1..Len(rows) : rows[i].status = PAID}),
          pending_payments |-> Cardinality({i \in 1..Len(rows) : rows[i].status # PAID}),
          vehicles_exited |-> Cardinality(exited_vehicles),
          active_sessions |->
              Cardinality({p \in vehicles \ exited_vehicles :
                  \E i \in 1..Len(rows) : rows[i].plate = p /\ rows[i].status = PENDING}) ]

\* update_system_stats: the six values computed from the two files.  The
\* reads of one call are microseconds apart and are taken at one instant.
computed_stats(rows, exits) ==
    LET vehicles == vehicles_of(rows)
        exited_vehicles == exited_vehicles_of(exits)
    IN  [ total_vehicles |-> Cardinality(vehicles),
          vehicles_inside |-> Cardinality(vehicles \ exited_vehicles),
          paid_vehicles |-> Cardinality({i \in 1..Len(rows) : rows[i].status = PAID}),
          pending_payments |-> Cardinality({i \in 1..Len(rows) : rows[i].status # PAID}),
          vehicles_exited |-> Cardinality(exited_vehicles),
          active_sessions |->
              Cardinality({p \in vehicles \ exited_vehicles :
                  \E i \in 1..Len(rows) : rows[i].plate = p /\ rows[i].status = PENDING}) ]

\* Mutant: the new values are added to the old ones.
dict_update_added(d, new) ==
    [k \in DOMAIN d \cup DOMAIN new |->
        IF k \in DOMAIN new /\ k \in DOMAIN d THEN d[k] + new[k]
        ELSE IF k \in DOMAIN new THEN new[k] ELSE d[k]]

\* dict.update: the keys of new replace those of d.
dict_update(d, new) ==
    [k \in DOMAIN d \cup DOMAIN new |-> IF k \in DOMAIN new THEN new[k] ELSE d[k]]

\* update_system_stats: system_stats after a call that read both files.
update_system_stats(stats, rows, exits) == dict_update(stats, computed_stats(rows, exits))

\* Mutant: the newest activity is popped.
log_activity_pop_first(activities, activity_type, plate_number, status) ==
    LET grown == << [type |-> activity_type, plate |-> plate_number, status |-> status] >>
                     \o activities
    IN  IF Len(grown) > MAX_ACTIVITIES THEN SubSeq(grown, 2, Len(grown)) ELSE grown

\* log_activity: the activity is inserted at the head and the oldest one
\* popped when the buffer is longer than MAX_ACTIVITIES.
log_activity(activities, activity_type, plate_number, status) ==
    LET grown == << [type |-> activity_type, plate |-> plate_number, status |-> status] >>
                     \o activities
    IN  IF Len(grown) > MAX_ACTIVITIES THEN SubSeq(grown, 1, Len(grown) - 1) ELSE grown

\* os.path.getsize(CSV_FILE), in rows: every row has the same length (a
\* plate of 7 characters, the status, a timestamp of 19).
csv_size(rows) == Len(rows)

\* A call of update_system_stats that reads both files.
StatsRecomputed ==
    /\ system_stats' = update_system_stats(system_stats, csv, exit_log)
    /\ stats_src' = [csv |-> csv, exit_log |-> exit_log]
    /\ stats_repeat' = (stats_src = [csv |-> csv, exit_log |-> exit_log])

\* The routes / and /stats: update_system_stats, then the stats are
\* returned.  A read that raises is caught and leaves system_stats as it was.
GetStats(ok) ==
    /\ IF ok THEN StatsRecomputed
       ELSE UNCHANGED << system_stats, stats_src, stats_repeat >>
    /\ UNCHANGED << now, tableVars, entryVars, payVars, entry_since, exitVars, watchVars,
                    loopVars >>

\* socketio.emit('new_activity', activity), the last statement of log_activity.
activity_event(activity_type, plate_number, status) ==
    [event |-> "new_activity",
     activity |-> [type |-> activity_type, plate |-> plate_number, status |-> status]]

\* socketio.emit('stats_update', system_stats)
stats_event(stats) == [event |-> "stats_update", stats |-> stats]

\* socketio.emit('new_transaction', {'log': last_line, 'type': 'payment',
\* 'stats': system_stats})
transaction_event(line, stats) ==
    [event |-> "new_transaction", log |-> line, type |-> "payment", stats |-> stats]

\* socketio.emit('security_alert', security_alert)
security_event(plate_number, alert_type) ==
    [event |-> "security_alert", plate |-> plate_number, alert_type |-> alert_type,
     status |-> "ERROR"]

\* socketio.emit('activities_update', recent_activities)
activities_event(activities) == [event |-> "activities_update", activities |-> activities]

\* os.path.getsize(PAYMENT_LOG), in lines: the file is only appended to.
payment_size(log) == Len(log)

\* os.path.getsize(EXIT_LOG), in rows: the file is only appended to.
exit_size(exits) == Len(exits)

\* os.path.getsize(SECURITY_LOG_FILE), in rows: the file is only appended to.
security_size(alerts) == Len(alerts)

\* watch_logs: a block that ran to its end is no longer the one that failed.
error_cleared(error, block) == IF error.block = block THEN NoError ELSE error

\* Mutant: the size seen is recorded although the read raised.
size_after_error_recorded(last_size, current_size) == current_size

\* watch_logs: last_<log>_size after a block whose read raised: the except
\* branch is entered before the assignment at the end of the block.
size_after_error(last_size, current_size) == last_size

\* watch_logs, the block that monitors plates_log.csv: on a size other than
\* the last one seen the stats are recomputed, the last line is reported as
\* an ENTRY activity and the stats are emitted.  update_system_stats catches
\* a read that raises and leaves system_stats as it was; when the watcher's
\* own read raises the iteration ends in the except branch, before the emit
\* and before last_csv_size is assigned.
WatchCsv(ok, readable) ==
    /\ csv_size(csv) # last_csv_size
    /\ IF ok THEN StatsRecomputed
       ELSE UNCHANGED << system_stats, stats_src, stats_repeat >>
    /\ IF readable
       THEN /\ recent_activities' =
                   IF Len(csv) >= 1
                   THEN log_activity(recent_activities, "ENTRY", csv[Len(csv)].plate, "SUCCESS")
                   ELSE recent_activities
            /\ emitted' =
                   (IF Len(csv) >= 1
                    THEN << activity_event("ENTRY", csv[Len(csv)].plate, "SUCCESS") >>
                    ELSE << >>) \o << stats_event(system_stats') >>
            /\ last_csv_size' = csv_size(csv)
            /\ watch_error' = error_cleared(watch_error, "csv")
       ELSE /\ last_csv_size' = size_after_error(last_csv_size, csv_size(csv))
            /\ watch_error' = [block |-> "csv", size |-> csv_size(csv)]
            /\ emitted' = << >>
            /\ UNCHANGED recent_activities
    /\ UNCHANGED << now, tableVars, entryVars, payVars, entry_since, exitVars,
                    last_payment_size, last_exit_size, last_security_size, loopVars >>

\* watch_logs, the payment block: the status of the activity logged for the
\* third ' - ' part of the line.
payment_activity_status(outcome) ==
    IF outcome = "SUCCESS" THEN "SUCCESS"
    ELSE IF outcome = "INSUFFICIENT_FUNDS" THEN "WARNING"
    ELSE IF outcome = "ERROR" THEN "ERROR"
    ELSE "INFO"

\* watch_logs, the block that monitors payment_log.txt: the last line is
\* reported as a PAYMENT activity and a new_transaction event with the stats
\* as they are, then the stats are recomputed and emitted.  An iteration
\* takes milliseconds: the block is reached with the block before it done.
WatchPayment(ok, readable) ==
    /\ csv_size(csv) = last_csv_size
    /\ payment_size(payment_log) # last_payment_size
    /\ IF readable
       THEN /\ IF ok THEN StatsRecomputed
               ELSE UNCHANGED << system_stats, stats_src, stats_repeat >>
            /\ recent_activities' =
                   IF Len(payment_log) >= 1
                   THEN log_activity(recent_activities, "PAYMENT",
                                     payment_log[Len(payment_log)].plate,
                                     payment_activity_status(payment_log[Len(payment_log)].outcome))
                   ELSE recent_activities
            /\ emitted' =
                   (IF Len(payment_log) >= 1
                    THEN << activity_event("PAYMENT", payment_log[Len(payment_log)].plate,
                               payment_activity_status(payment_log[Len(payment_log)].outcome)),
                            transaction_event(payment_log[Len(payment_log)], system_stats) >>
                    ELSE << >>) \o << stats_event(system_stats') >>
            /\ last_payment_size' = payment_size(payment_log)
            /\ watch_error' = error_cleared(watch_error, "payment")
       ELSE /\ last_payment_size' = size_after_error(last_payment_size, payment_size(payment_log))
            /\ watch_error' = [block |-> "payment", size |-> payment_size(payment_log)]
            /\ emitted' = << >>
            /\ UNCHANGED << system_stats, stats_src, stats_repeat, recent_activities >>
    /\ UNCHANGED << now, tableVars, entryVars, payVars, entry_since, exitVars,
                    last_csv_size, last_exit_size, last_security_size, loopVars >>

\* watch_logs, the block that monitors exit_log.csv: the last row, whatever
\* its exit type, is reported as an EXIT activity with status SUCCESS, then
\* the stats are recomputed and emitted.
WatchExit(ok, readable) ==
    /\ csv_size(csv) = last_csv_size
    /\ payment_size(payment_log) = last_payment_size
    /\ exit_size(exit_log) # last_exit_size
    /\ IF readable
       THEN /\ IF ok THEN StatsRecomputed
               ELSE UNCHANGED << system_stats, stats_src, stats_repeat >>
            /\ recent_activities' =
                   IF Len(exit_log) >= 1
                   THEN log_activity(recent_activities, "EXIT",
                                     exit_log[Len(exit_log)].plate, "SUCCESS")
                   ELSE recent_activities
            /\ emitted' =
                   (IF Len(exit_log) >= 1
                    THEN << activity_event("EXIT", exit_log[Len(exit_log)].plate, "SUCCESS") >>
                    ELSE << >>) \o << stats_event(system_stats') >>
            /\ last_exit_size' = exit_size(exit_log)
            /\ watch_error' = error_cleared(watch_error, "exit")
       ELSE /\ last_exit_size' = size_after_error(last_exit_size, exit_size(exit_log))
            /\ watch_error' = [block |-> "exit", size |-> exit_size(exit_log)]
            /\ emitted' = << >>
            /\ UNCHANGED << system_stats, stats_src, stats_repeat, recent_activities >>
    /\ UNCHANGED << now, tableVars, entryVars, payVars, entry_since, exitVars,
                    last_csv_size, last_payment_size, last_security_size, loopVars >>

\* watch_logs, the block that monitors security_alerts.csv: the last row is
\* emitted as a security_alert event and reported as a SECURITY_ALERT
\* activity.
WatchSecurity(readable) ==
    /\ csv_size(csv) = last_csv_size
    /\ payment_size(payment_log) = last_payment_size
    /\ exit_size(exit_log) = last_exit_size
    /\ security_size(security_log) # last_security_size
    /\ IF readable
       THEN /\ recent_activities' =
                   IF Len(security_log) >= 1
                   THEN log_activity(recent_activities, "SECURITY_ALERT",
                                     security_log[Len(security_log)].plate, "ERROR")
                   ELSE recent_activities
            /\ emitted' =
                   IF Len(security_log) >= 1
                   THEN << security_event(security_log[Len(security_log)].plate,
                                          security_log[Len(security_log)].alert_type),
                           activity_event("SECURITY_ALERT",
                                          security_log[Len(security_log)].plate, "ERROR") >>
                   ELSE << >>
            /\ last_security_size' = security_size(security_log)
            /\ watch_error' = error_cleared(watch_error, "security")
       ELSE /\ last_security_size' =
                   size_after_error(last_security_size, security_size(security_log))
            /\ watch_error' = [block |-> "security", size |-> security_size(security_log)]
            /\ emitted' = << >>
            /\ UNCHANGED recent_activities
    /\ UNCHANGED << now, tableVars, entryVars, payVars, entry_since, exitVars,
                    system_stats, stats_src, stats_repeat,
                    last_csv_size, last_payment_size, last_exit_size, loopVars >>

\* Mutant: the events emitted before are replayed first.
OnConnectReplay(ok) ==
    /\ IF ok THEN StatsRecomputed
       ELSE UNCHANGED << system_stats, stats_src, stats_repeat >>
    /\ emitted' = emitted \o << stats_event(system_stats'), activities_event(recent_activities) >>
    /\ UNCHANGED << now, tableVars, entryVars, payVars, entry_since, exitVars,
                    last_csv_size, last_payment_size, last_exit_size, last_security_size,
                    recent_activities, watch_error, loopVars >>

\* on_connect: the stats are recomputed and emitted, then the activity
\* buffer is emitted.
OnConnect(ok) ==
    /\ IF ok THEN StatsRecomputed
       ELSE UNCHANGED << system_stats, stats_src, stats_repeat >>
    /\ emitted' = << stats_event(system_stats'), activities_event(recent_activities) >>
    /\ UNCHANGED << now, tableVars, entryVars, payVars, entry_since, exitVars,
                    last_csv_size, last_payment_size, last_exit_size, last_security_size,
                    recent_activities, watch_error, loopVars >>

----------------------------------------------------------------------------
(* The reconciler behind the routes, with the entries, the payments and    *)
(* the exit evaluations of a camera without actuator that write the tables *)
(* it reads.                                                               *)

StatsNext ==
    \/ Tick /\ now' <= ExitMaxHalfHours * 1800
    \/ \E p \in Plates : Len(entry_hist) < MaxRows /\ pay_pc = "idle" /\ EntrySave(p)
    \/ /\ Len(payment_log) < ExitMaxPays
       /\ \E i \in 1..Len(csv) : csv[i].plate = "RAD667J" /\ csv[i].status = PENDING
       /\ PayRequest("RAD667J", MaxBalance)
    \/ PayCalc
    \/ PayUpdateRead
    \/ PayUpdateTrunc
    \/ PayUpdateWrite
    \/ ExitStartup(FALSE, FALSE)
    \/ pay_pc = "idle" /\ last_eval.n < StatsMaxExits /\ ExitGrant("RAD667J", TRUE)
    \/ pay_pc = "idle" /\ last_eval.n < StatsMaxExits /\ ExitDeny("RAD667J", TRUE)
    \/ \E ok \in BOOLEAN : GetStats(ok)

StatsSpec == Init /\ [][StatsNext]_vars

----------------------------------------------------------------------------------------------------------------------------------------
(* The watcher of plates_log.csv, the first block of its loop, with the    *)
(* entries and the payments that change the file and the routes that       *)
(* recompute the stats beside it.                                          *)

WatchNext ==
    \/ Tick /\ now' <= ExitMaxHalfHours * 1800
    \/ \E p \in Plates : Len(entry_hist) < MaxRows /\ pay_pc = "idle" /\ EntrySave(p)
    \/ /\ Len(payment_log) < ExitMaxPays
       /\ \E i \in 1..Len(csv) : csv[i].plate = "RAD667J" /\ csv[i].status = PENDING
       /\ PayRequest("RAD667J", MaxBalance)
    \/ PayCalc
    \/ PayUpdateRead
    \/ PayUpdateTrunc
    \/ PayUpdateWrite
    \/ \E ok \in BOOLEAN : GetStats(ok)
    \/ \E ok, readable \in BOOLEAN : WatchCsv(ok, readable)

WatchSpec == Init /\ [][WatchNext]_vars

----------------------------------------------------------------------------
(* The watcher of payment_log.txt, the second block of its loop, with the  *)
(* plate that enters and the payment requests that are answered.           *)

PayWatchNext ==
    \/ Tick /\ now' <= ExitMaxHalfHours * 1800
    \/ Len(entry_hist) < ExitMaxRows /\ pay_pc = "idle" /\ EntrySave("RAD667J")
    \/ \E b \in Balances :
          Len(payment_log) < LoopMaxPays /\ PayRequest("RAD667J", b)
    \/ PayCalc
    \/ PayUpdateRead
    \/ PayUpdateTrunc
    \/ PayUpdateWrite
    \/ PayUpdateFail
    \/ WatchCsv(TRUE, TRUE)
    \/ \E ok, readable \in BOOLEAN : WatchPayment(ok, readable)

PayWatchSpec == Init /\ [][PayWatchNext]_vars

----------------------------------------------------------------------------
(* The activity buffer when it is nearly full: the watcher has reported    *)
(* payments, and an exit or an alert before them, and the tables have been *)
(* emptied since; entries are appended and reported.                       *)

\* A buffer of n activities: payments, and oldest before them.
filled(n, oldest) ==
    [i \in 1..n |-> IF i = n THEN oldest
                    ELSE [type |-> "PAYMENT", plate |-> "RAD667J", status |-> "SUCCESS"]]

\* The activities the watcher logs for an exit and for an alert.
OldestActivities ==
    { [type |-> "EXIT", plate |-> "RAD667J", status |-> "SUCCESS"],
      [type |-> "SECURITY_ALERT", plate |-> "RAB123C", status |-> "ERROR"] }

BufferInit ==
    /\ now = 0
    /\ csv = <<>>
    /\ entry_hist = <<>>
    /\ ever_paid = {}
    /\ last_saved_plate = None
    /\ last_entry_time = 0
    /\ pay_pc = "idle"
    /\ pay_req = NoRequest
    /\ pay_calc = NoCalc
    /\ updated_rows = <<>>
    /\ response = NoResponse
    /\ payment_log = <<>>
    /\ entry_since = FALSE
    /\ exit_pc = "start"
    /\ arduino = FALSE
    /\ simulation_mode = FALSE
    /\ unauthorized_attempts = EmptyDict
    /\ last_processed_plate = None
    /\ last_exit_time = 0
    /\ threads = {}
    /\ actuator = "0"
    /\ security_log = <<>>
    /\ exit_log = <<>>
    /\ incident_reports = {}
    /\ last_eval = NoEval
    /\ denials = [p \in AllPlates |-> 0]
    /\ counter_born = [p \in AllPlates |-> 0]
    /\ system_stats = InitStats
    /\ last_csv_size = 0
    /\ \E n \in (MAX_ACTIVITIES - BufferSlack)..MAX_ACTIVITIES, oldest \in OldestActivities :
          recent_activities = filled(n, oldest)
    /\ last_payment_size = 0
    /\ last_exit_size = 0
    /\ last_security_size = 0
    /\ emitted = <<>>
    /\ watch_error = NoError
    /\ stats_src = NoTables
    /\ stats_repeat = FALSE
    /\ watch_pc = "csv"
    /\ current_csv_size = 0

BufferNext ==
    \/ Tick /\ now' <= ExitMaxHalfHours * 1800
    \/ \E p \in Plates : Len(entry_hist) < MaxRows /\ EntrySave(p)
    \/ \E readable \in BOOLEAN : WatchCsv(TRUE, readable)

BufferSpec == BufferInit /\ [][BufferNext]_vars

----------------------------------------------------------------------------
(* The four blocks of the watcher's loop, with one plate that enters, pays *)
(* and is evaluated at the exit, and the observers that connect.           *)

\* The lines appended to the logs and the exit evaluations made so far.
LoopEvents == Len(entry_hist) + Len(payment_log) + last_eval.n

LoopNext ==
    \/ Tick /\ now' <= ExitMaxHalfHours * 1800
    \/ LoopEvents < LoopMaxEvents /\ Len(entry_hist) < MaxRows /\ pay_pc = "idle" /\ EntrySave("RAD667J")
    \/ LoopEvents < LoopMaxEvents /\ PayRequest("RAD667J", MaxBalance)
    \/ PayCalc
    \/ PayUpdateRead
    \/ PayUpdateTrunc
    \/ PayUpdateWrite
    \/ \E a \in BOOLEAN : ExitStartup(a, FALSE)
    \/ LoopEvents < LoopMaxEvents /\ pay_pc = "idle" /\ ExitGrant("RAD667J", TRUE)
    \/ LoopEvents < LoopMaxEvents /\ pay_pc = "idle" /\ ExitDeny("RAD667J", TRUE)
    \/ \E t \in threads : AlarmFinish(t)
    \/ \E readable \in BOOLEAN : WatchCsv(TRUE, readable)
    \/ \E readable \in BOOLEAN : WatchPayment(TRUE, readable)
    \/ \E readable \in BOOLEAN : WatchExit(TRUE, readable)
    \/ \E readable \in BOOLEAN : WatchSecurity(readable)
    \/ \E ok \in BOOLEAN : OnConnect(ok)

LoopSpec == Init /\ [][LoopNext]_vars

----------------------------------------------------------------------------
(* One iteration of watch_logs, block after block.  The size of            *)
(* plates_log.csv is measured first and recorded last, with the            *)
(* recomputation and the read in between; the writers run beside it.  The  *)
(* reads succeed.                                                          *)

\* watch_logs, "Monitor entry logs": current_csv_size is measured and
\* compared with the size last recorded.
MonitorEntrySize ==
    /\ watch_pc = "csv"
    /\ current_csv_size' = csv_size(csv)
    /\ watch_pc' = IF csv_size(csv) # last_csv_size THEN "csv_changed" ELSE "payment"
    /\ UNCHANGED << now, tableVars, entryVars, payVars, entry_since, exitVars,
                    system_stats, stats_src, stats_repeat, watchVars >>

\* watch_logs, "Monitor entry logs", the body of the if: the stats are
\* recomputed from the files as they are now, the last line is reported,
\* the stats are emitted and the size measured before is recorded.
MonitorEntryLogs ==
    /\ watch_pc = "csv_changed"
    /\ StatsRecomputed
    /\ recent_activities' =
           IF Len(csv) >= 1
           THEN log_activity(recent_activities, "ENTRY", csv[Len(csv)].plate, "SUCCESS")
           ELSE recent_activities
    /\ emitted' =
           (IF Len(csv) >= 1
            THEN << activity_event("ENTRY", csv[Len(csv)].plate, "SUCCESS") >>
            ELSE << >>) \o << stats_event(system_stats') >>
    /\ last_csv_size' = current_csv_size
    /\ watch_pc' = "payment"
    /\ UNCHANGED << now, tableVars, entryVars, payVars, entry_since, exitVars,
                    last_payment_size, last_exit_size, last_security_size, watch_error,
                    current_csv_size >>

\* watch_logs, "Monitor payment logs": on a size other than the last one
\* recorded the last line is reported with the stats as they are, then the
\* stats are recomputed and emitted and the size is recorded.
MonitorPaymentLogs ==
    /\ watch_pc = "payment"
    /\ IF payment_size(payment_log) # last_payment_size
       THEN /\ StatsRecomputed
            /\ recent_activities' =
                   IF Len(payment_log) >= 1
                   THEN log_activity(recent_activities, "PAYMENT",
                                     payment_log[Len(payment_log)].plate,
                                     payment_activity_status(payment_log[Len(payment_log)].outcome))
                   ELSE recent_activities
            /\ emitted' =
                   (IF Len(payment_log) >= 1
                    THEN << activity_event("PAYMENT", payment_log[Len(payment_log)].plate,
                               payment_activity_status(payment_log[Len(payment_log)].outcome)),
                            transaction_event(payment_log[Len(payment_log)], system_stats) >>
                    ELSE << >>) \o << stats_event(system_stats') >>
            /\ last_payment_size' = payment_size(payment_log)
       ELSE UNCHANGED << system_stats, stats_src, stats_repeat, recent_activities, emitted,
                         last_payment_size >>
    /\ watch_pc' = "exit"
    /\ UNCHANGED << now, tableVars, entryVars, payVars, entry_since, exitVars,
                    last_csv_size, last_exit_size, last_security_size, watch_error,
                    current_csv_size >>

\* watch_logs, "Monitor exit logs": on a size other than the last one
\* recorded the last row is reported, the stats are recomputed and emitted
\* and the size is recorded.
MonitorExitLogs ==
    /\ watch_pc = "exit"
    /\ IF exit_size(exit_log) # last_exit_size
       THEN /\ StatsRecomputed
            /\ recent_activities' =
                   IF Len(exit_log) >= 1
                   THEN log_activity(recent_activities, "EXIT",
                                     exit_log[Len(exit_log)].plate, "SUCCESS")
                   ELSE recent_activities
            /\ emitted' =
                   (IF Len(exit_log) >= 1
                    THEN << activity_event("EXIT", exit_log[Len(exit_log)].plate, "SUCCESS") >>
                    ELSE << >>) \o << stats_event(system_stats') >>
            /\ last_exit_size' = exit_size(exit_log)
       ELSE UNCHANGED << system_stats, stats_src, stats_repeat, recent_activities, emitted,
                         last_exit_size >>
    /\ watch_pc' = "security"
    /\ UNCHANGED << now, tableVars, entryVars, payVars, entry_since, exitVars,
                    last_csv_size, last_payment_size, last_security_size, watch_error,
                    current_csv_size >>

\* watch_logs, "Monitor security alerts", and time.sleep(1): the last alert
\* is emitted and reported, the size is recorded; the next iteration starts
\* at the first block.
MonitorSecurityAlerts ==
    /\ watch_pc = "security"
    /\ IF security_size(security_log) # last_security_size
       THEN /\ recent_activities' =
                   IF Len(security_log) >= 1
                   THEN log_activity(recent_activities, "SECURITY_ALERT",
                                     security_log[Len(security_log)].plate, "ERROR")
                   ELSE recent_activities
            /\ emitted' =
                   IF Len(security_log) >= 1
                   THEN << security_event(security_log[Len(security_log)].plate,
                                          security_log[Len(security_log)].alert_type),
                           activity_event("SECURITY_ALERT",
                                          security_log[Len(security_log)].plate, "ERROR") >>
                   ELSE << >>
            /\ last_security_size' = security_size(security_log)
       ELSE UNCHANGED << recent_activities, emitted, last_security_size >>
    /\ watch_pc' = "csv"
    /\ UNCHANGED << now, tableVars, entryVars, payVars, entry_since, exitVars,
                    system_stats, stats_src, stats_repeat,
                    last_csv_size, last_payment_size, last_exit_size, watch_error,
                    current_csv_size >>

\* watch_logs: while True, the next statement of the iteration.
watch_logs ==
    \/ MonitorEntrySize
    \/ MonitorEntryLogs
    \/ MonitorPaymentLogs
    \/ MonitorExitLogs
    \/ MonitorSecurityAlerts

ConvergeNext ==
    \/ Tick /\ now' <= ExitMaxHalfHours * 1800
    \/ \E p \in Plates : Len(entry_hist) < EntryMaxRows /\ EntrySave(p)
    \/ /\ Len(payment_log) < ExitMaxPays
       /\ PayRequest("RAD667J", MaxBalance)
    \/ PayCalc
    \/ PayUpdateRead
    \/ PayUpdateTrunc
    \/ PayUpdateWrite
    \/ ExitStartup(FALSE, FALSE)
    \/ last_eval.n < StatsMaxExits /\ ExitGrant("RAD667J", TRUE)
    \/ last_eval.n < StatsMaxExits /\ ExitDeny("RAD667J", TRUE)
    \/ MonitorEntrySize
    \/ MonitorEntryLogs
    \/ MonitorPaymentLogs
    \/ MonitorExitLogs
    \/ MonitorSecurityAlerts

\* process_payment once called: it waits for nothing and runs to its end.
process_payment ==
    \/ PayCalc
    \/ PayUpdateRead
    \/ PayUpdateTrunc
    \/ PayUpdateWrite

\* The watcher is a daemon thread whose loop has no exit: its next
\* statement is always executed.  A payment that was requested is served
\* to its end.  No further vehicle has to arrive, at either gate or at the
\* terminal.
ConvergeSpec ==
    Init /\ [][ConvergeNext]_vars /\ WF_vars(watch_logs) /\ WF_vars(process_payment)

----------------------------------------------------------------------------
(* Properties of the payment process *)

\* new is old with the Pending rows of the plate made Paid and nothing else
\* changed.
FlippedOnly(old, new, plate_number) ==
    /\ Len(new) = Len(old)
    /\ \A i \in 1..Len(old) :
         /\ new[i].id = old[i].id
         /\ new[i].plate = old[i].plate
         /\ new[i].ts = old[i].ts
         /\ new[i].status = IF old[i].plate = plate_number /\ old[i].status = PENDING
                            THEN PAID ELSE old[i].status

HasPending(rows, plate_number) ==
    \E i \in 1..Len(rows) : rows[i].plate = plate_number /\ rows[i].status = PENDING

\* C1: a successful payment for plate P writes the table it read with every
\* Pending row of P made Paid, the status of no other plate's row and no
\* other field changed; and a payment for P requested right after the
\* success, no entry having been appended since, is answered
\* NO_PARKING_SESSIONS.
C1_SuccessFlipsAllPendingOfPlate ==
    [][ /\ (pay_pc = "update_read" /\ pay_pc' = "update_trunc")
            => FlippedOnly(csv, updated_rows', pay_req.plate)
        /\ (pay_pc = "update_write" /\ response'.status = "PAYMENT_SUCCESS" /\ pay_pc' = "idle")
            => (csv' = updated_rows /\ ~HasPending(csv', response'.plate))
        /\ (/\ pay_pc = "calc"
            /\ response.status = "PAYMENT_SUCCESS"
            /\ response.plate = pay_req.plate
            /\ ~entry_since
            /\ pay_pc' # "calc")
            => (pay_pc' = "idle" /\ response'.status = "NO_PARKING_SESSIONS")
      ]_vars

\* C1 witness: P paid with success while another plate had a Pending row,
\* and P's next request was answered NO_PARKING_SESSIONS.
C1_Witness ==
    /\ Len(payment_log) = 2
    /\ payment_log[1] = log_entry("RAD667J", "SUCCESS")
    /\ payment_log[2] = log_entry("RAD667J", "NO_PARKING_SESSIONS")
    /\ \E i, j \in 1..Len(csv) :
         /\ csv[i].plate = "RAD667J" /\ csv[i].status = PAID
         /\ csv[j].plate = "RAB123C" /\ csv[j].status = PENDING

\* C2: a row that has once been in the table as Paid is never in the table
\* as Pending.
C2_PaidNeverBackToPending ==
    \A i \in 1..Len(csv) : csv[i].id \in ever_paid => csv[i].status = PAID

\* C2 witness: a table with a Paid row has been rewritten by a second
\* successful payment of the same plate.
C2_Witness ==
    /\ Len(payment_log) = 2
    /\ payment_log[1] = log_entry("RAD667J", "SUCCESS")
    /\ payment_log[2] = log_entry("RAD667J", "SUCCESS")
    /\ Len(csv) >= 2
    /\ \A i \in 1..Len(csv) : csv[i].id \in ever_paid

\* Every appended row is in the table, in the order of the appends, with its
\* plate and timestamp.
RowsKept ==
    /\ Len(csv) = Len(entry_hist)
    /\ \A i \in 1..Len(csv) :
         /\ csv[i].id = i
         /\ csv[i].plate = entry_hist[i].plate
         /\ csv[i].ts = entry_hist[i].ts

NoUpdateFailed == \A i \in 1..Len(payment_log) : payment_log[i].outcome # "ERROR"

\* C3: no Session row is lost or reordered by a payment's read-then-rewrite
\* interleaved with entry appends: once the payment process is idle again
\* (no update having failed), every appended row is in the table at its
\* place.
C3_NoRowLostOrReordered ==
    (pay_pc = "idle" /\ NoUpdateFailed) => RowsKept

\* C4: the flip is all-or-nothing: at every instant the table a reader sees
\* holds every row update_csv read, and a failed update leaves a table that
\* is not emptied.
C4_FlipAllOrNothing ==
    /\ \A i \in 1..Len(updated_rows) :
         \E j \in 1..Len(csv) : csv[j].id = updated_rows[i].id
    /\ (pay_pc = "idle" /\ response.status = "ERROR" /\ ~entry_since) => csv # <<>>

\* C5: a request whose balance is less than the total owed is answered
\* INSUFFICIENT_FUNDS:<total owed>,<balance>, the balance unchanged, and no
\* row of the table changes.
C5_InsufficientFunds ==
    [][ (/\ pay_pc = "calc"
         /\ pay_pc' # "calc"
         /\ pay_req.balance < calculate_charges(csv, pay_req.plate, now).total_charge)
        => /\ pay_pc' = "idle"
           /\ response' = [ status |-> "INSUFFICIENT_FUNDS", plate |-> pay_req.plate,
                            owed |-> calculate_charges(csv, pay_req.plate, now).total_charge,
                            balance |-> pay_req.balance ]
           /\ csv' = csv
      ]_vars

\* C5 witness: balance 400 against 500 owed was answered
\* INSUFFICIENT_FUNDS:500,400.
C5_Witness ==
    /\ pay_pc = "idle"
    /\ response.status = "INSUFFICIENT_FUNDS"
    /\ response.owed = 500
    /\ response.balance = 400
    /\ HasPending(csv, response.plate)

\* The charge of the specification: for each Pending session of the plate
\* max(ceil(elapsed_minutes / 60) * hourly_rate, minimum_charge), summed.
PolicyTotal(rows, plate_number, current_time) ==
    LET sel == SelectSeq(rows, LAMBDA r : r.plate = plate_number /\ r.status = PENDING)
    IN  SumSeq([i \in 1..Len(sel) |->
            Max(Ceil(current_time - sel[i].ts, SecondsPerMinute * MinutesPerHour) * HOURLY_RATE,
                MINIMUM_CHARGE)])

\* C6: for every plate and table, calculate_charges yields the sum over the
\* plate's Pending sessions of max(ceil(minutes / 60) * rate, minimum).
C6_ChargeIsPolicyTotal ==
    \A p \in Plates : calculate_charges(csv, p, now).total_charge = PolicyTotal(csv, p, now)

PendingOf(rows, plate_number) ==
    {i \in 1..Len(rows) : rows[i].plate = plate_number /\ rows[i].status = PENDING}

\* C7: a plate whose only Pending session has zero elapsed time owes the
\* minimum charge and is not told NO_PARKING_SESSIONS.
C7_ZeroMinutesStillCharged ==
    \A p \in Plates :
        (Cardinality(PendingOf(csv, p)) = 1 /\ \A i \in PendingOf(csv, p) : csv[i].ts = now)
        => /\ calculate_charges(csv, p, now).total_charge = MINIMUM_CHARGE
           /\ calculate_charges(csv, p, now).sessions # 0

\* C8: a request for a plate with no Pending row is answered
\* NO_PARKING_SESSIONS with the balance as presented, and the table is left
\* as it was.
C8_NoPendingNoSessions ==
    [][ (pay_pc = "calc" /\ pay_pc' # "calc" /\ ~HasPending(csv, pay_req.plate))
        => /\ pay_pc' = "idle"
           /\ response' = [ status |-> "NO_PARKING_SESSIONS", plate |-> pay_req.plate,
                            balance |-> pay_req.balance ]
           /\ csv' = csv
      ]_vars

\* C8 witness: a plate whose rows are all Paid has been answered
\* NO_PARKING_SESSIONS, with balance 400, while another plate has a Pending
\* row.
C8_Witness ==
    /\ pay_pc = "idle"
    /\ response = NoSessionsStatus("RAD667J", 400)
    /\ ~HasPending(csv, "RAD667J")
    /\ \E i \in 1..Len(csv) : csv[i].plate = "RAD667J" /\ csv[i].status = PAID
    /\ HasPending(csv, "RAB123C")
    /\ ~entry_since

\* C9: a successful payment returns balance - total owed, which is not
\* negative, and answers PAYMENT_SUCCESS:<new balance>,<charged>,<duration>
\* with charged the total owed that calculate_charges computed.
C9_SuccessDebitsTotal ==
    [][ /\ (pay_pc = "calc" /\ pay_pc' = "update_read")
            => /\ pay_calc' = calculate_charges(csv, pay_req.plate, now)
               /\ pay_req.balance >= pay_calc'.total_charge
               /\ pay_req' = pay_req
        /\ (pay_pc = "update_write" /\ pay_pc' = "idle" /\ response'.status = "PAYMENT_SUCCESS")
            => /\ response'.new_balance = pay_req.balance - pay_calc.total_charge
               /\ response'.new_balance >= 0
               /\ response'.charged = pay_calc.total_charge
               /\ response'.duration = pay_calc.duration
               /\ response'.plate = pay_req.plate
      ]_vars

\* C9 witness: sessions of 90 and 30 minutes were paid from a balance of
\* 1500: charged 1500, new balance 0, duration 2:00:00.
C9_Witness ==
    /\ response.status = "PAYMENT_SUCCESS"
    /\ response.charged = 1500
    /\ response.new_balance = 0
    /\ response.duration = <<2, 0>>

----------------------------------------------------------------------------
(* Properties of the exit process *)

\* The tier the escalation protocol gives the n-th denial in a row.
TierOfDenial(n) ==
    IF n = 1 THEN "UNAUTHORIZED_EXIT_ATTEMPT"
    ELSE IF n = 2 THEN "HIGH_PRIORITY_ALERT"
    ELSE "CRITICAL_SECURITY_BREACH"

\* C10: the n-th denied exit evaluation of a plate since its last reset
\* produces the Standard alert for n = 1, the HighPriority alert for n = 2
\* and the CriticalBreach alert for n >= 3.
C10_NthDenialTier ==
    (last_eval.n > 0 /\ ~last_eval.granted)
        => last_eval.alert_type = TierOfDenial(denials[last_eval.plate])

\* C11: every exit evaluation of a plate that does not verify the payment
\* increments the plate's attempt counter by one, creating it at 1: the
\* counter of a plate denied since its last reset is the number of those
\* denials, in camera and simulation mode, with or without an actuator.
C11_DenialIncrementsCounter ==
    \A p \in AllPlates :
        denials[p] > 0 =>
            /\ p \in DOMAIN unauthorized_attempts
            /\ unauthorized_attempts[p] = denials[p]

\* C12: an incident report is generated for a denial exactly when the
\* plate's counter after the increment is at least 3, the CriticalBreach
\* tier: every report carries a count of 3 or more and belongs to a logged
\* CriticalBreach alert, and every logged CriticalBreach alert has its
\* report; a Standard or HighPriority denial has none.
C12_ReportIffCritical ==
    /\ \A r \in incident_reports :
         /\ r.attempts >= 3
         /\ \E i \in 1..Len(security_log) :
              security_log[i] = [ plate |-> r.plate, alert_type |-> "CRITICAL_SECURITY_BREACH",
                                  status |-> "ACTIVE",
                                  action_taken |-> << "LOCKDOWN_INITIATED_AFTER", r.attempts >> ]
    /\ \A i \in 1..Len(security_log) :
         security_log[i].alert_type = "CRITICAL_SECURITY_BREACH"
            => \E r \in incident_reports :
                  r.plate = security_log[i].plate /\ r.attempts = security_log[i].action_taken[2]

\* C12 witness: three denials in a row of one plate have sounded and been
\* logged, Standard, HighPriority, CriticalBreach, and there is one report,
\* of the third.
C12_Witness ==
    /\ Len(security_log) = 3
    /\ \A i \in 1..3 : security_log[i].plate = "REPEAT1" /\ security_log[i].status = "ACTIVE"
    /\ security_log[1].alert_type = "UNAUTHORIZED_EXIT_ATTEMPT"
    /\ security_log[2].alert_type = "HIGH_PRIORITY_ALERT"
    /\ security_log[3].alert_type = "CRITICAL_SECURITY_BREACH"
    /\ incident_reports = {[plate |-> "REPEAT1", attempts |-> 3, n |-> 3]}

\* C13: a verified exit evaluation of plate P deletes P's attempt counter,
\* and the first denial of P after it is counted 1 and classified Standard
\* again, whatever the denials before the verified exit were.
C13_VerifiedExitResets ==
    /\ (last_eval.n > 0 /\ last_eval.granted)
          => last_eval.plate \notin DOMAIN unauthorized_attempts
    /\ (last_eval.n > 0 /\ ~last_eval.granted /\ denials[last_eval.plate] = 1)
          => /\ last_eval.plate \in DOMAIN unauthorized_attempts
                => unauthorized_attempts[last_eval.plate] = 1
             /\ last_eval.alert_type # None
                => last_eval.alert_type = "UNAUTHORIZED_EXIT_ATTEMPT"

\* C13 witness: with an actuator, a plate was denied, then paid and left on
\* a verified exit, and its next denial has just been counted 1.
C13_Witness ==
    /\ arduino
    /\ last_eval.n = 3
    /\ ~last_eval.granted
    /\ last_eval.plate = "RAD667J"
    /\ last_eval.alert_type = "UNAUTHORIZED_EXIT_ATTEMPT"
    /\ unauthorized_attempts = [q \in {"RAD667J"} |-> 1]
    /\ exit_log # <<>>
    /\ exit_log[Len(exit_log)].exit_type = "AUTHORIZED"
    /\ \E t \in threads : t.kind = "alarm" /\ t.n = 1 /\ t.plate = "RAD667J"

\* C14: the attempt counter of a plate never decreases and is never deleted
\* except by a reset, and a reset of P's counter comes only with a
\* successful payment for P made since the counter was created.
C14_CounterMonotoneUntilPaidReset ==
    [][ \A p \in DOMAIN unauthorized_attempts :
          \/ /\ p \in DOMAIN unauthorized_attempts'
             /\ unauthorized_attempts'[p] >= unauthorized_attempts[p]
          \/ /\ last_eval'.n = last_eval.n + 1
             /\ last_eval'.granted
             /\ last_eval'.plate = p
             /\ successes(payment_log, p) > counter_born[p]
      ]_vars

\* C15: escalation state does not leak between vehicles: the counter of
\* every plate is decided by that plate's own evaluations alone (its
\* denials since its own last verified exit), whatever other plates were
\* evaluated in between, and the tier of a denial is a function of the
\* denied plate's own counter.
C15_NoLeakBetweenPlates ==
    /\ \A q \in DOMAIN unauthorized_attempts :
          unauthorized_attempts[q] = denials[q]
    /\ (last_eval.n > 0 /\ ~last_eval.granted) =>
          IF last_eval.plate \in DOMAIN unauthorized_attempts
          THEN last_eval.alert_type = TierOfDenial(unauthorized_attempts[last_eval.plate])
          ELSE last_eval.alert_type \in {None, "UNAUTHORIZED_EXIT_ATTEMPT"}

\* C15 witness: one plate denied twice with another plate denied in
\* between: counters 2 and 1, the last tier HighPriority.
C15_Witness ==
    /\ unauthorized_attempts = [q \in {"REPEAT1", "RAD667J"} |->
                                    IF q = "REPEAT1" THEN 2 ELSE 1]
    /\ last_eval.n = 3
    /\ last_eval.plate = "REPEAT1"
    /\ last_eval.alert_type = "HIGH_PRIORITY_ALERT"
    /\ \E t \in threads : t.kind = "alarm" /\ t.n = 2 /\ t.plate = "RAD667J"

\* The plate has a Session row that has been in the table as Paid.
HasPaidRow(plate_number) ==
    \E id \in ever_paid : entry_hist[id].plate = plate_number

\* C16: exit authorization fails closed: an evaluation that cannot read the
\* Session table treats every plate as not paid, and the gate is opened and
\* an AUTHORIZED exit logged only for a plate with a row read as Paid.
C16_ExitFailsClosed ==
    /\ (last_eval.n > 0 /\ ~last_eval.readable)
          => /\ ~last_eval.granted
             /\ \A t \in threads : ~(t.kind = "gate" /\ t.n = last_eval.n)
    /\ (last_eval.n > 0 /\ last_eval.granted) => HasPaidRow(last_eval.plate)
    /\ \A t \in threads : t.kind = "gate" => HasPaidRow(t.plate)
    /\ \A i \in 1..Len(exit_log) :
          exit_log[i].exit_type = "AUTHORIZED" => HasPaidRow(exit_log[i].plate)

\* C16 witness: with an actuator, a plate whose row is Paid has been denied
\* by an evaluation that could not read the table: alarm, no gate, no
\* AUTHORIZED row.
C16_Witness ==
    /\ arduino
    /\ last_eval.n = 1
    /\ ~last_eval.readable
    /\ ~last_eval.granted
    /\ is_payment_complete(csv, last_eval.plate)
    /\ \E t \in threads : t.kind = "alarm" /\ t.n = 1
    /\ exit_log = <<>>

----------------------------------------------------------------------------
(* Properties of the reconciler *)

\* The plates that are inside by the rule of the specification: a plate
\* with a Session row that no ExitRecord of type Authorized follows.
SpecInside(rows, exits) ==
    {p \in vehicles_of(rows) :
        \E i \in 1..Len(rows) :
            /\ rows[i].plate = p
            /\ ~\E j \in 1..Len(exits) :
                   /\ exits[j].plate = p
                   /\ exits[j].exit_type = "AUTHORIZED"
                   /\ exits[j].exit_time >= rows[i].ts}

\* C17: in every stats snapshot vehicles_inside is the number of plates
\* that have a Session row with no Authorized ExitRecord after that entry;
\* an Unauthorized ExitRecord does not remove a plate and a re-entry after
\* an Authorized exit puts it back.
C17_InsideIffNoAuthorizedExitAfterEntry ==
    system_stats.vehicles_inside
        = Cardinality(SpecInside(stats_src.csv, stats_src.exit_log))

OneRowAppended ==
    /\ Len(stats_src'.csv) = Len(stats_src.csv) + 1
    /\ SubSeq(stats_src'.csv, 1, Len(stats_src.csv)) = stats_src.csv

\* C19 as stated: after a Session row is appended, the next recomputation
\* has total_vehicles one more than the snapshot before the append.
C19_TotalPlusOnePerAppend ==
    [][ OneRowAppended => system_stats'.total_vehicles = system_stats.total_vehicles + 1 ]_vars

\* C19 amended: after a Session row is appended, the next recomputation
\* has total_vehicles one more than the snapshot before the append when the
\* row's plate has no earlier row in the table, and the same value when it
\* has one.
C19_TotalGrowsByNewPlate ==
    [][ OneRowAppended =>
          system_stats'.total_vehicles =
              system_stats.total_vehicles
                + (IF stats_src'.csv[Len(stats_src'.csv)].plate \in vehicles_of(stats_src.csv)
                   THEN 0 ELSE 1) ]_vars

\* C19 witness: the watcher has seen the second row of a plate, appended
\* after a first one, and the stats count one vehicle.
C19_Witness ==
    /\ last_csv_size = 2
    /\ Len(stats_src.csv) = 2
    /\ stats_src.csv[1].plate = stats_src.csv[2].plate
    /\ stats_src.csv[1].ts < stats_src.csv[2].ts
    /\ system_stats.total_vehicles = 1
    /\ Len(recent_activities) = 2

\* C20: whatever the tables, total_vehicles is the number of distinct
\* plates of the Session table, paid_vehicles its rows with status Paid,
\* pending_payments its rows with status Pending, and active_sessions the
\* number of plates that are inside and have a Pending row.
C20_StatsCounts ==
    LET rows == stats_src.csv
        exits == stats_src.exit_log
    IN  /\ system_stats.total_vehicles = Cardinality({rows[i].plate : i \in 1..Len(rows)})
        /\ system_stats.paid_vehicles = Cardinality({i \in 1..Len(rows) : rows[i].status = PAID})
        /\ system_stats.pending_payments =
               Cardinality({i \in 1..Len(rows) : rows[i].status = PENDING})
        /\ system_stats.active_sessions =
               Cardinality({p \in SpecInside(rows, exits) :
                   \E i \in 1..Len(rows) : rows[i].plate = p /\ rows[i].status = PENDING})

----------------------------------------------------------------------------
(* Properties of the watcher *)

\* The activities of a type and plate that the watcher has reported.
ActivitiesOf(activity_type, plate_number) ==
    Cardinality({i \in 1..Len(recent_activities) :
        /\ recent_activities[i].type = activity_type
        /\ recent_activities[i].plate = plate_number})

\* The Session rows appended for a plate.
RowsAppended(plate_number) ==
    Cardinality({i \in 1..Len(entry_hist) : entry_hist[i].plate = plate_number})

\* C21: no missing events: every appended Session row gets an Entry
\* activity for its plate, also when several rows are appended between two
\* polls.  Once the watcher has seen the file as it is, and no further poll
\* will report anything, each plate has an Entry activity for each of its
\* rows.
C21_EveryAppendedRowReported ==
    (pay_pc = "idle" /\ last_csv_size = csv_size(csv))
        => \A p \in Plates : ActivitiesOf("ENTRY", p) >= RowsAppended(p)

\* C22: no double-counting: the watcher emits at most one Entry activity
\* per appended Session row, whatever payments rewrite the table and
\* whatever iterations fail and are retried.
C22_AtMostOneEntryActivityPerRow ==
    \A p \in Plates : ActivitiesOf("ENTRY", p) <= RowsAppended(p)

\* C23: every outcome of a payment authorization is one line of the
\* transaction log, and every line is picked up by the watcher, which emits
\* a Payment activity and a transaction event followed by a stats snapshot.
\* Once the watcher has seen the log as it is, there is a Payment activity
\* for each line.
C23_EveryPaymentLineReported ==
    (last_csv_size = csv_size(csv) /\ last_payment_size = payment_size(payment_log))
        => ActivitiesOf("PAYMENT", "RAD667J") = Len(payment_log)

\* C24: every denied exit evaluation advances the escalation state machine
\* and appends one SecurityAlert row for the plate, which the watcher then
\* broadcasts: after a denial the plate has an attempt counter, and its
\* alert is in the security log or its alarm is still sounding.
C24_DenialLogsAlert ==
    (last_eval.n > 0 /\ ~last_eval.granted) =>
        /\ last_eval.plate \in DOMAIN unauthorized_attempts
        /\ \/ \E t \in threads : t.kind = "alarm" /\ t.n = last_eval.n
           \/ \E i \in 1..Len(security_log) : security_log[i].plate = last_eval.plate

\* C25: every exit evaluation, granted or denied, appends exactly one
\* ExitRecord for the evaluated plate, Authorized when the payment was
\* verified and Unauthorized otherwise, also for a plate without a Session
\* row: the exit log has one row per evaluation, the last one that of the
\* latest evaluation.
C25_OneExitRecordPerEvaluation ==
    /\ Len(exit_log) = last_eval.n
    /\ last_eval.n > 0 =>
          /\ exit_log[Len(exit_log)].plate = last_eval.plate
          /\ exit_log[Len(exit_log)].exit_type =
                 (IF last_eval.granted THEN "AUTHORIZED" ELSE "UNAUTHORIZED")

\* The signals that sound the alarm.
AlarmSignals == {"2", "8", "9"}

\* C26: every alarm has the same fixed duration whatever its tier: a denied
\* exit with an actuator writes the tier's alarm signal, the stop signal is
\* written exactly ALERT_DURATION seconds later, for the Standard,
\* HighPriority and CriticalBreach alerts alike, and every alarm signal is
\* eventually followed by a stop signal.
C26_AlarmStopsAfterDuration ==
    /\ [][\A t \in threads' \ threads :
             t.kind = "alarm" => actuator' = arduino_signal_of(t.attempt_count)]_vars
    /\ [][\A t \in threads \ threads' :
             t.kind = "alarm" => /\ now = t.started + ALERT_DURATION
                                 /\ exit_pc = "run" => actuator' = "0"]_vars
    /\ (actuator \in AlarmSignals) ~> (actuator = "0")

\* A step that emits events while the watcher stays where it is: an
\* observer connects.
ConnectStep ==
    /\ emitted' # emitted
    /\ emitted' # << >>
    /\ watch_error' = watch_error
    /\ << last_csv_size, last_payment_size, last_exit_size, last_security_size >>' =
           << last_csv_size, last_payment_size, last_exit_size, last_security_size >>

LastRowActivity == [type |-> "ENTRY", plate |-> csv[Len(csv)].plate, status |-> "SUCCESS"]

\* C28: the activity buffer is bounded: it never holds more than
\* MAX_ACTIVITIES activities; a logged activity becomes the first one, the
\* others keep their order behind it, and when the buffer was full exactly
\* the oldest, the last one, is dropped.
C28_BoundedNewestFirst ==
    /\ [](Len(recent_activities) <= MAX_ACTIVITIES)
    /\ [][ (last_csv_size' # last_csv_size /\ Len(csv) >= 1) =>
             LET grown == << LastRowActivity >> \o recent_activities
             IN  recent_activities' =
                    SubSeq(grown, 1, IF Len(grown) > MAX_ACTIVITIES
                                     THEN MAX_ACTIVITIES ELSE Len(grown)) ]_vars

\* C28 witness: two entries were reported into a full buffer: the exit or
\* alert that was the oldest activity is gone, and so is a payment.
C28_Witness ==
    /\ Len(recent_activities) = MAX_ACTIVITIES
    /\ recent_activities[1].type = "ENTRY"
    /\ recent_activities[2].type = "ENTRY"
    /\ \A i \in 3..MAX_ACTIVITIES : recent_activities[i].type = "PAYMENT"
    /\ last_csv_size = 2

\* The size of the log a block of the watcher polls, and the size the
\* watcher has recorded for it.
WatchedSize(block) ==
    CASE block = "csv" -> csv_size(csv)
      [] block = "payment" -> payment_size(payment_log)
      [] block = "exit" -> exit_size(exit_log)
      [] block = "security" -> security_size(security_log)

RecordedSize(block) ==
    CASE block = "csv" -> last_csv_size
      [] block = "payment" -> last_payment_size
      [] block = "exit" -> last_exit_size
      [] block = "security" -> last_security_size

\* C29: a failed iteration does not end the watcher and does not record
\* the change it failed on: while the log is as the failed read found it,
\* its size differs from the recorded one, so that a further iteration
\* detects the change again.
C29_FailedIterationRetried ==
    (watch_error.block # None /\ WatchedSize(watch_error.block) = watch_error.size)
        => RecordedSize(watch_error.block) # WatchedSize(watch_error.block)

\* C29 witness: the read of the security log raised when its first alert
\* had been appended; the alert is still to be reported.
C29_Witness ==
    /\ watch_error = [block |-> "security", size |-> 1]
    /\ security_size(security_log) = 1
    /\ last_security_size = 0
    /\ \A i \in 1..Len(recent_activities) : recent_activities[i].type # "SECURITY_ALERT"

\* C30: duplicate suppression: a plate that the entry path has processed
\* gets no second Session row until entry_cooldown has elapsed since it was
\* last processed, also when another plate was processed in between: two
\* rows of one plate are at least entry_cooldown apart.
C30_NoSecondRowWithinCooldown ==
    \A i, j \in 1..Len(entry_hist) :
        (i < j /\ entry_hist[i].plate = entry_hist[j].plate)
            => entry_hist[j].ts - entry_hist[i].ts >= entry_cooldown

\* C31: an exit is never authorized for a plate that has a Pending Session
\* row: the evaluation of a plate that re-entered after a paid session and
\* has not paid the new one is denied: no gate thread is started, no
\* Authorized ExitRecord is written and the attempt counter is not reset.
C31_NoGrantWithPendingRow ==
    [][ (last_eval'.n = last_eval.n + 1 /\ HasPending(csv, last_eval'.plate))
          => /\ ~last_eval'.granted
             /\ \A t \in threads' \ threads : t.kind # "gate"
             /\ \A i \in (Len(exit_log) + 1)..Len(exit_log') :
                    exit_log'[i].exit_type # "AUTHORIZED"
             /\ DOMAIN unauthorized_attempts \subseteq DOMAIN unauthorized_attempts' ]_vars

\* C32: every row a successful payment flips to Paid was counted in the
\* total that payment charged: the rows that become Paid with the write of
\* update_csv are no more than the sessions calculate_charges charged.
C32_FlippedRowsWereCharged ==
    [][ (pay_pc = "update_write" /\ pay_pc' = "idle" /\ response'.status = "PAYMENT_SUCCESS")
          => Cardinality(PaidIds(csv') \ ever_paid) <= pay_calc.sessions ]_vars

\* The plate has a Session row that a successful payment has marked Paid.
HasSucceededPayment(plate_number) ==
    \E i \in 1..Len(entry_hist) :
        entry_hist[i].plate = plate_number /\ entry_hist[i].id \in ever_paid

\* C33: a plate whose payment has succeeded is never denied exit: once a
\* row of the plate is Paid every later exit evaluation of it is granted,
\* also while another plate's payment is rewriting the Session table, and
\* no SecurityAlert is appended for it.
C33_PaidPlateNeverDenied ==
    [][ (last_eval'.n = last_eval.n + 1 /\ HasSucceededPayment(last_eval'.plate))
          => /\ last_eval'.granted
             /\ \A t \in threads' \ threads : t.kind # "alarm" ]_vars

\* C34: the stats carried in a transaction event are those of the logs at
\* the time it is emitted: they equal the stats snapshot emitted right
\* after it in the same iteration, which counts the rows the payment has
\* flipped.
C34_TransactionStatsCurrent ==
    \A i \in 1..(Len(emitted) - 1) :
        emitted[i].event = "new_transaction" =>
            /\ emitted[i + 1].event = "stats_update"
            /\ emitted[i].stats = emitted[i + 1].stats

\* C35: every stats snapshot is consistent in itself and belongs to one
\* state of the logs: vehicles_inside + vehicles_exited = total_vehicles,
\* paid_vehicles + pending_payments is the number of Session rows read, and
\* active_sessions is at most vehicles_inside and at most pending_payments.
C35_SnapshotConsistent ==
    /\ system_stats.vehicles_inside + system_stats.vehicles_exited = system_stats.total_vehicles
    /\ system_stats.paid_vehicles + system_stats.pending_payments = Len(stats_src.csv)
    /\ system_stats.active_sessions <= system_stats.vehicles_inside
    /\ system_stats.active_sessions <= system_stats.pending_payments

\* The stats the watcher last emitted are those of the logs as they are.
\* In the specification of the watcher every recomputation is followed by
\* the emit of its block, so the stats last emitted are system_stats.
StatsOfFinalLogs ==
    LET fresh == computed_stats(csv, exit_log)
    IN  \A k \in DOMAIN fresh : system_stats[k] = fresh[k]

\* C36: the stats converge: the writers write finitely often, and from some
\* iteration of the watcher on the stats snapshot last emitted is the
\* reconciliation of the final contents of the logs, also after a payment
\* has flipped a status without changing the size of the Session table.
C36_StatsConverge == <>[]StatsOfFinalLogs

\* The ACTIVE rows of a plate in security_alerts.csv, in file order.
AlertRowsOf(plate_number) ==
    SelectSeq(security_log, LAMBDA r : r.plate = plate_number /\ r.status = "ACTIVE")

\* The attempt count an alert row was logged for: it is part of Action
\* Taken from the second attempt on.
AttemptOfRow(r) == IF Len(r.action_taken) = 2 THEN r.action_taken[2] ELSE 1

\* Standard, HighPriority, CriticalBreach.
RankOfTier(alert_type) ==
    CASE alert_type = "UNAUTHORIZED_EXIT_ATTEMPT" -> 1
      [] alert_type = "HIGH_PRIORITY_ALERT" -> 2
      [] alert_type = "CRITICAL_SECURITY_BREACH" -> 3

\* The plate's counter, 0 when the dict has no key for it.
AttemptsOf(plate_number) ==
    IF plate_number \in DOMAIN unauthorized_attempts
    THEN unauthorized_attempts[plate_number] ELSE 0

\* The alarms of a plate that are still sounding.
SoundingAlarms(plate_number) ==
    {t \in threads : t.kind = "alarm" /\ t.plate = plate_number}

============================================================================
